---------------------------- MODULE Spec2Model ----------------------------
(***************************************************************************)
(* The session and message-protocol layer of obs-websocket:                *)
(*   src/src/WebSocketServer_Protocol.cpp  (SetSessionParameters,          *)
(*       ProcessMessage, BroadcastEvent)                                   *)
(*   src/src/eventhandler/EventHandler_Inputs.cpp  (callers of             *)
(*       BroadcastEvent)                                                   *)
(*                                                                         *)
(* A JSON value is a record [t, v]: t is the nlohmann::json type of the    *)
(* value ("absent" when the key is not contained in the payload object)    *)
(* and v an integer standing for its content: the number itself, 0/1 for   *)
(* a boolean, the length of an array, the number of keys of an object, an  *)
(* identifier for a string.                                                *)
(***************************************************************************)
EXTENDS Integers, Sequences, FiniteSets, TLC

(***************************************************************************)
(* Bounds of the model.                                                    *)
(***************************************************************************)
\* connection handles the transport layer hands out
MaxSessions == 2
\* bits of the eventSubscriptions mask that are modelled (uint64_t in the code)
MaskBits == 2
\* sub-requests in the `requests` array of a RequestBatch
MaxBatch == 2
\* how far below zero an aggregate ref-count is followed
MaxUnderflow == 1
\* the threads that handle frames and broadcasts at the same time
MaxThreads == 2

(***************************************************************************)
(* Program constants.                                                      *)
(***************************************************************************)
OpHello == 0
OpIdentify == 1
OpIdentified == 2
OpReidentify == 3
OpEvent == 5
OpRequest == 6
OpRequestResponse == 7
OpRequestBatch == 8
OpRequestBatchResponse == 9
\* an opcode the enum does not name
OpUnknown == 4
\* the rpc version IsSupportedRpcVersion accepts
SupportedRpcVersion == 1
\* uint8_t requestedRpcVersion
Uint8Range == 256
\* _threadPool.maxThreadCount() < 2
MinParallelThreads == 2

OpCodes == {OpHello, OpIdentify, OpIdentified, OpReidentify, OpUnknown, OpEvent,
            OpRequest, OpRequestResponse, OpRequestBatch, OpRequestBatchResponse}

Handles == 1..MaxSessions
Bits == 0..(MaskBits - 1)
Masks == 0..(2^MaskBits - 1)
Encodings == {"Json", "MsgPack"}

(***************************************************************************)
(* Bit masks.                                                              *)
(***************************************************************************)
HasBit(m, b) == (m \div (2^b)) % 2 = 1

\* (a & b) on the modelled bits
BitAnd(a, b) ==
    LET RECURSIVE Sum(_)
        Sum(k) == IF k = MaskBits THEN 0
                  ELSE (IF HasBit(a, k) /\ HasBit(b, k) THEN 2^k ELSE 0) + Sum(k + 1)
    IN Sum(0)

(***************************************************************************)
(* JSON values and the payload object `d`.                                 *)
(***************************************************************************)
J(t, v) == [t |-> t, v |-> v]
Absent == J("absent", 0)
JNull == J("null", 0)
JTrue == J("boolean", 1)
JFalse == J("boolean", 0)
JUnsigned(n) == J("unsigned", n)
JString(id) == J("string", id)

\* payloadData.contains(key)
Contains(j) == j.t # "absent"
\* json::is_number_unsigned()
IsNumberUnsigned(j) == j.t = "unsigned"
\* json::is_boolean()
IsBoolean(j) == j.t = "boolean"
\* json::is_string(), is_array(), is_null()
IsString(j) == j.t = "string"
IsArray(j) == j.t = "array"
IsNull(j) == j.t = "null"

\* the implicit conversion of a json value to an arithmetic type throws
\* type_error unless the value is a number or a boolean
ConvertsToNumber(j) == j.t \in {"unsigned", "integer", "float", "boolean"}
\* the implicit conversion to uint8_t is a static_cast: it keeps the low 8 bits
ToUint8(j) == j.v % Uint8Range
\* the implicit conversion to std::string throws unless the value is a string;
\* operator[] on a missing key yields null
ConvertsToString(j) == j.t = "string"

\* identifiers of the strings the code compares
StrOther == 0
StrSerialRealtime == 1
StrSerialFrame == 2
StrParallel == 3
\* the authentication string that matches the session's secret and challenge
StrAuthExpected == 1

\* the shapes of `d`: not given (null), given and not an object, an object
PayloadShapes == {"null", "other", "object"}

EmptyObject == [shape |-> "object",
                authentication |-> Absent, rpcVersion |-> Absent,
                ignoreInvalidMessages |-> Absent, eventSubscriptions |-> Absent,
                requestId |-> Absent, requestType |-> Absent, requests |-> Absent,
                executionType |-> Absent, variables |-> Absent]
NullPayload == [EmptyObject EXCEPT !.shape = "null"]
OtherPayload == [EmptyObject EXCEPT !.shape = "other"]

AuthenticationValues == {Absent, JString(StrAuthExpected), JString(StrOther)}
RpcVersionValues == {Absent, JUnsigned(1), JUnsigned(2), JUnsigned(Uint8Range + 1),
                     JTrue, JFalse, JString(StrOther)}
IgnoreInvalidMessagesValues == {Absent, JTrue, JFalse, JString(StrOther)}
EventSubscriptionsValues == {Absent, JString(StrOther)} \cup {JUnsigned(m) : m \in Masks}
RequestIdValues == {Absent, JString(StrOther)}
RequestTypeValues == {Absent, JString(StrOther)}
RequestsValues == {Absent, JString(StrOther)} \cup {J("array", n) : n \in 0..MaxBatch}
ExecutionTypeValues == {Absent, JNull, JUnsigned(1), JString(StrOther),
                        JString(StrSerialRealtime), JString(StrSerialFrame),
                        JString(StrParallel)}
VariablesValues == {Absent, JNull, JUnsigned(1), J("object", 0), J("object", 1)}

SessionParameterPayloads ==
    {[EmptyObject EXCEPT !.ignoreInvalidMessages = i, !.eventSubscriptions = e] :
        i \in IgnoreInvalidMessagesValues, e \in EventSubscriptionsValues}
IdentifyPayloads ==
    {[q EXCEPT !.authentication = a, !.rpcVersion = v] :
        q \in SessionParameterPayloads, a \in AuthenticationValues, v \in RpcVersionValues}
RequestPayloads ==
    {[EmptyObject EXCEPT !.requestId = i, !.requestType = t] :
        i \in RequestIdValues, t \in RequestTypeValues}
RequestBatchPayloads ==
    {[EmptyObject EXCEPT !.requestId = i, !.requests = r, !.executionType = x,
                         !.variables = v] :
        i \in RequestIdValues, r \in RequestsValues, x \in ExecutionTypeValues,
        v \in VariablesValues}

\* the payloads sent with an opcode
Payloads(op) ==
    {NullPayload, OtherPayload} \cup
    (CASE op = OpIdentify -> IdentifyPayloads
       [] op = OpReidentify -> SessionParameterPayloads
       [] op = OpRequest -> RequestPayloads
       [] op = OpRequestBatch -> RequestBatchPayloads
       [] OTHER -> {EmptyObject})

\* what the Request Executor (RequestHandler::ProcessRequest) answers
RequestStatuses == {"Success", "UnknownRequestType", "RequestProcessingFailed"}

\* the orders in which the sub-requests 1..n of a batch can complete
CompletionOrders(n) ==
    {q \in [1..n -> 1..n] : \A i, j \in 1..n : q[i] = q[j] => i = j}

\* the sub-requests in array order
ArrayOrder(n) == [i \in 1..n |-> i]


(***************************************************************************)
(* Session: the per-connection state ProcessMessage and BroadcastEvent     *)
(* read and write through its getters and setters.                         *)
(***************************************************************************)
\* the eventSubscriptions of a session that has not subscribed yet
\* (EventSubscription::All on the modelled bits)
DefaultSubscriptions == 2^MaskBits - 1

NewSession(enc, auth) ==
    [live |-> TRUE, identified |-> FALSE, rpcVersion |-> 0,
     ignoreInvalidMessages |-> FALSE, eventSubscriptions |-> DefaultSubscriptions,
     encoding |-> enc, authenticationRequired |-> auth, outgoingMessages |-> 0]

NoSession == [NewSession("Json", FALSE) EXCEPT !.live = FALSE]

(***************************************************************************)
(* The Event Source's subscription accounting: one ref-count per bit.      *)
(***************************************************************************)
\* EventHandler::ProcessSubscription(mask): AddRefs
ProcessSubscription(r, mask) ==
    [b \in Bits |-> IF HasBit(mask, b) THEN r[b] + 1 ELSE r[b]]

\* EventHandler::ProcessUnsubscription(mask): RemoveRefs
ProcessUnsubscription(r, mask) ==
    [b \in Bits |-> IF HasBit(mask, b) THEN r[b] - 1 ELSE r[b]]

(***************************************************************************)
(* ProcessResult ret: closeCode, closeReason (not modelled), result.       *)
(***************************************************************************)
NoRequestStatus == [result |-> FALSE, code |-> "none"]
NoResult == [op |-> -1, negotiatedRpcVersion |-> 0, requestType |-> Absent,
             requestId |-> Absent, requestStatus |-> NoRequestStatus,
             results |-> <<>>]
DontCloseRet == [closeCode |-> "DontClose", result |-> NoResult]
CloseRet(code) == [closeCode |-> code, result |-> NoResult]

\* unless the session ignores invalid messages, close with `code`
CloseUnlessIgnored(s, code) ==
    IF ~s.ignoreInvalidMessages THEN CloseRet(code) ELSE DontCloseRet

\* what one call of ProcessMessage did: the session and the ref-counts after it,
\* ret, whether a json type_error left the function, the calls of the Request
\* Executor and of ProcessRequestBatch it made
Outcome(s, r, ret) ==
    [session |-> s, refs |-> r, ret |-> ret, threw |-> FALSE,
     executorCalls |-> 0, batchRuns |-> 0, policy |-> StrOther]
Thrown(s, r, ret) == [Outcome(s, r, ret) EXCEPT !.threw = TRUE]

IsSupportedRpcVersion(requestedVersion) == requestedVersion = SupportedRpcVersion

\* Utils::Crypto::CheckAuthenticationString(secret, challenge, authentication)
CheckAuthenticationString(j) == j.v = StrAuthExpected

\* SetSessionParameters(session, ret, payloadData): the session and ret after it
SetSessionParameters(s, ret, p) ==
    IF Contains(p.ignoreInvalidMessages) /\ ~IsBoolean(p.ignoreInvalidMessages)
    THEN [session |-> s, ret |-> CloseRet("InvalidDataKeyType")]
    ELSE LET s1 == IF Contains(p.ignoreInvalidMessages)
                   THEN [s EXCEPT !.ignoreInvalidMessages = (p.ignoreInvalidMessages.v = 1)]
                   ELSE s
         IN IF Contains(p.eventSubscriptions) /\ ~IsNumberUnsigned(p.eventSubscriptions)
            THEN [session |-> s1, ret |-> CloseRet("InvalidDataKeyType")]
            ELSE IF Contains(p.eventSubscriptions)
                 THEN [session |-> [s1 EXCEPT !.eventSubscriptions = p.eventSubscriptions.v],
                       ret |-> ret]
                 ELSE [session |-> s1, ret |-> ret]

\* rpcVersion is known not to be a number: ret is set and the function goes on
RpcVersionTypeCheck(p) ==
    IF ~IsNumberUnsigned(p.rpcVersion) THEN CloseRet("InvalidDataKeyType")
    ELSE DontCloseRet

\* Identify, from the rpcVersion checks on: the version is negotiated, the
\* session parameters are set, the mask is registered, the session is marked
NegotiateVersion(s, r, p) ==
    IF ~Contains(p.rpcVersion)
    THEN Outcome(s, r, CloseRet("MissingDataKey"))
    ELSE LET ret1 == RpcVersionTypeCheck(p)
         IN IF ~ConvertsToNumber(p.rpcVersion)
            THEN Thrown(s, r, ret1)
            ELSE LET requestedRpcVersion == ToUint8(p.rpcVersion)
                 IN IF ~IsSupportedRpcVersion(requestedRpcVersion)
                    THEN Outcome(s, r, CloseRet("UnsupportedRpcVersion"))
                    ELSE LET s1 == [s EXCEPT !.rpcVersion = requestedRpcVersion]
                             sp == SetSessionParameters(s1, ret1, p)
                         IN IF sp.ret.closeCode # "DontClose"
                            THEN Outcome(sp.session, r, sp.ret)
                            ELSE Outcome(
                                   [sp.session EXCEPT !.identified = TRUE],
                                   ProcessSubscription(r, sp.session.eventSubscriptions),
                                   [closeCode |-> "DontClose",
                                    result |-> [NoResult EXCEPT
                                       !.op = OpIdentified,
                                       !.negotiatedRpcVersion = sp.session.rpcVersion]])

\* a handshake that lets a session that ignores invalid messages stay open
\* after a failed authentication
Authenticate_Lenient(s, r, p) ==
    IF s.authenticationRequired /\ ~Contains(p.authentication)
    THEN Outcome(s, r, CloseUnlessIgnored(s, "AuthenticationFailed"))
    ELSE IF s.authenticationRequired /\ ~CheckAuthenticationString(p.authentication)
    THEN Outcome(s, r, CloseUnlessIgnored(s, "AuthenticationFailed"))
    ELSE NegotiateVersion(s, r, p)

\* Identify, from `if (session->AuthenticationRequired())` on
Authenticate(s, r, p) ==
    IF s.authenticationRequired /\ ~Contains(p.authentication)
    THEN Outcome(s, r, CloseRet("AuthenticationFailed"))
    ELSE IF s.authenticationRequired /\ ~CheckAuthenticationString(p.authentication)
    THEN Outcome(s, r, CloseRet("AuthenticationFailed"))
    ELSE NegotiateVersion(s, r, p)

\* an Identify that does not look at IsIdentified() again under the lock
Identify_NoRecheck(s, r, p) == Authenticate(s, r, p)

\* case WebSocketOpCode::Identify
Identify(s, r, p) ==
    IF s.identified
    THEN Outcome(s, r, CloseUnlessIgnored(s, "AlreadyIdentified"))
    ELSE Authenticate(s, r, p)

\* the reply of Reidentify
ReidentifyReply(s) ==
    [closeCode |-> "DontClose",
     result |-> [NoResult EXCEPT !.op = OpIdentified,
                                 !.negotiatedRpcVersion = s.rpcVersion]]

\* a Reidentify that does not release the refs of the current subscriptions
Reidentify_KeepsOldRefs(s, r, p) ==
    LET sp == SetSessionParameters(s, DontCloseRet, p)
    IN IF sp.ret.closeCode # "DontClose"
       THEN Outcome(sp.session, r, sp.ret)
       ELSE Outcome(sp.session,
                    ProcessSubscription(r, sp.session.eventSubscriptions),
                    ReidentifyReply(sp.session))

\* a Reidentify that does not return when SetSessionParameters set a close code
Reidentify_NoReturn(s, r, p) ==
    LET r1 == ProcessUnsubscription(r, s.eventSubscriptions)
        sp == SetSessionParameters(s, DontCloseRet, p)
    IN Outcome(sp.session,
               ProcessSubscription(r1, sp.session.eventSubscriptions),
               [ReidentifyReply(sp.session) EXCEPT !.closeCode = sp.ret.closeCode])

\* case WebSocketOpCode::Reidentify
Reidentify(s, r, p) ==
    LET r1 == ProcessUnsubscription(r, s.eventSubscriptions)
        sp == SetSessionParameters(s, DontCloseRet, p)
    IN IF sp.ret.closeCode # "DontClose"
       THEN Outcome(sp.session, r1, sp.ret)
       ELSE Outcome(sp.session,
                    ProcessSubscription(r1, sp.session.eventSubscriptions),
                    ReidentifyReply(sp.session))

\* RequestHandler::ProcessRequest is called and its answer becomes the reply
RequestReply(s, r, p, status) ==
    IF ~ConvertsToString(p.requestType)
    THEN Thrown(s, r, DontCloseRet)
    ELSE [Outcome(s, r, [closeCode |-> "DontClose",
                         result |-> [NoResult EXCEPT
                            !.op = OpRequestResponse,
                            !.requestType = p.requestType,
                            !.requestId = p.requestId,
                            !.requestStatus = [result |-> (status = "Success"),
                                               code |-> status]]])
            EXCEPT !.executorCalls = 1]

\* a Request that is executed whether or not it carries a requestId
Request_Unchecked(s, r, p, status) == RequestReply(s, r, p, status)

\* case WebSocketOpCode::Request; status is the Request Executor's answer
Request(s, r, p, status) ==
    IF ~Contains(p.requestId)
    THEN Outcome(s, r, CloseUnlessIgnored(s, "MissingDataKey"))
    ELSE RequestReply(s, r, p, status)

\* the Batch Execution Engine writes the result of each sub-request, as it
\* completes, at the index of the sub-request
RECURSIVE CollectResults(_, _, _)
CollectResults(results, order, k) ==
    IF k > Len(order) THEN results
    ELSE CollectResults([results EXCEPT ![order[k]] = order[k]], order, k + 1)

\* ProcessRequestBatch(session, executionType, requests, results, variables):
\* one call of the Request Executor per sub-request; under the serial policies
\* the sub-requests complete in array order, under PARALLEL in `order`
ProcessRequestBatch(s, r, executionType, n, order) ==
    [Outcome(s, r, DontCloseRet)
       EXCEPT !.executorCalls = n, !.batchRuns = 1, !.policy = executionType,
              !.ret.result.results =
                  CollectResults([i \in 1..n |-> 0],
                                 IF executionType = StrParallel THEN order
                                 ELSE ArrayOrder(n), 1)]

\* a reply that is built without the batch's requestId
BatchReply_NoRequestId(s, r, p, executionType, order) ==
    LET o == ProcessRequestBatch(s, r, executionType, p.requests.v, order)
    IN [o EXCEPT !.ret.result.op = OpRequestBatchResponse]

\* RequestBatch from `std::vector<json> requests = payloadData["requests"]` on:
\* the engine runs and its results become the reply
BatchReply(s, r, p, executionType, order) ==
    LET o == ProcessRequestBatch(s, r, executionType, p.requests.v, order)
    IN [o EXCEPT !.ret.result.op = OpRequestBatchResponse,
                 !.ret.result.requestId = p.requestId]

\* a batch whose variables are handed to the engine under every execution type
BatchVariables_Unchecked(s, r, p, executionType, order) ==
    BatchReply(s, r, p, executionType, order)

\* RequestBatch, from `if (payloadData.contains("variables") ...` on.
\* contains("variables") && !payloadData.is_null(): payloadData is an object
\* here, so `!payloadData.is_object()` is false
BatchVariables(s, r, p, executionType, order) ==
    IF Contains(p.variables) /\ p.shape # "null" /\ p.shape # "object"
    THEN Outcome(s, r, CloseUnlessIgnored(s, "InvalidDataKeyType"))
    ELSE IF Contains(p.variables) /\ p.shape # "null" /\ executionType = StrParallel
    THEN Outcome(s, r, CloseUnlessIgnored(s, "UnsupportedFeature"))
    ELSE BatchReply(s, r, p, executionType, order)

\* a test that lets one thread pass for a parallel pool
ParallelAvailable_OffByOne(maxThreadCount) == maxThreadCount >= MinParallelThreads - 1

\* the negation of `_threadPool.maxThreadCount() < 2`
ParallelAvailable(maxThreadCount) == maxThreadCount >= MinParallelThreads

\* case WebSocketOpCode::RequestBatch; maxThreadCount is _threadPool.maxThreadCount()
RequestBatch(s, r, p, order, maxThreadCount) ==
    IF ~Contains(p.requestId)
    THEN Outcome(s, r, CloseUnlessIgnored(s, "MissingDataKey"))
    ELSE IF ~Contains(p.requests)
    THEN Outcome(s, r, CloseUnlessIgnored(s, "MissingDataKey"))
    ELSE IF ~IsArray(p.requests)
    THEN Outcome(s, r, CloseUnlessIgnored(s, "InvalidDataKeyType"))
    ELSE IF Contains(p.executionType) /\ ~IsNull(p.executionType)
            /\ ~IsString(p.executionType)
    THEN Outcome(s, r, CloseUnlessIgnored(s, "InvalidDataKeyType"))
    ELSE IF Contains(p.executionType) /\ ~IsNull(p.executionType)
            /\ p.executionType.v = StrParallel /\ ~ParallelAvailable(maxThreadCount)
    THEN Outcome(s, r, CloseUnlessIgnored(s, "UnsupportedFeature"))
    ELSE IF Contains(p.executionType) /\ ~IsNull(p.executionType)
            /\ p.executionType.v \notin {StrSerialRealtime, StrSerialFrame, StrParallel}
    THEN Outcome(s, r, CloseUnlessIgnored(s, "InvalidDataKeyValue"))
    ELSE BatchVariables(s, r, p,
            IF Contains(p.executionType) /\ ~IsNull(p.executionType)
            THEN p.executionType.v ELSE StrSerialRealtime, order)

\* a switch whose default branch closes whatever the session ignores
Dispatch_StrictDefault(s, r, opCode, p, status, order, maxThreadCount) ==
    CASE opCode = OpIdentify -> Identify(s, r, p)
      [] opCode = OpReidentify -> Reidentify(s, r, p)
      [] opCode = OpRequest -> Request(s, r, p, status)
      [] opCode = OpRequestBatch -> RequestBatch(s, r, p, order, maxThreadCount)
      [] OTHER -> Outcome(s, r, CloseRet("UnknownOpCode"))

\* the switch over opCode
Dispatch(s, r, opCode, p, status, order, maxThreadCount) ==
    CASE opCode = OpIdentify -> Identify(s, r, p)
      [] opCode = OpReidentify -> Reidentify(s, r, p)
      [] opCode = OpRequest -> Request(s, r, p, status)
      [] opCode = OpRequestBatch -> RequestBatch(s, r, p, order, maxThreadCount)
      [] OTHER -> Outcome(s, r, CloseUnlessIgnored(s, "UnknownOpCode"))

\* a ProcessMessage that dispatches whether or not the session is identified
ProcessMessage_NoIdentifiedGate(s, r, opCode, p, status, order, maxThreadCount) ==
    IF p.shape # "object"
    THEN IF p.shape = "null"
         THEN Outcome(s, r, CloseRet("MissingDataKey"))
         ELSE Outcome(s, r, CloseRet("InvalidDataKeyType"))
    ELSE Dispatch(s, r, opCode, p, status, order, maxThreadCount)

\* WebSocketServer::ProcessMessage(session, ret, opCode, payloadData)
ProcessMessage(s, r, opCode, p, status, order, maxThreadCount) ==
    IF p.shape # "object"
    THEN IF p.shape = "null"
         THEN Outcome(s, r, CloseRet("MissingDataKey"))
         ELSE Outcome(s, r, CloseRet("InvalidDataKeyType"))
    ELSE IF ~s.identified /\ opCode # OpIdentify
    THEN Outcome(s, r, CloseRet("NotIdentified"))
    ELSE Dispatch(s, r, opCode, p, status, order, maxThreadCount)

(***************************************************************************)
(* The state of the server.                                                *)
(***************************************************************************)
VARIABLES
    sessions,        \* _sessions: connection handle -> Session
    refs,            \* the Event Source's aggregate ref-count of each bit
    maxThreadCount,  \* _threadPool.maxThreadCount()
    threads,         \* the pool's threads: the job each runs and where it is
    mutex,           \* the holders of each session's OperationMutex and of
                     \* _sessionMutex (0: free)
    listening,       \* _server.is_listening()
    pool,            \* the broadcast runnables _threadPool has not run yet
    inbox,           \* the frame or event that is about to be handled
    before,          \* the session and the ref-counts the handler started from
    last             \* what the handler that ran last did

vars == <<sessions, refs, maxThreadCount, threads, mutex, listening, pool, inbox, before, last>>

NoLast == [kind |-> "none", hdl |-> 0, opCode |-> -1, ret |-> DontCloseRet,
           threw |-> FALSE, executorCalls |-> 0, batchRuns |-> 0,
           policy |-> StrOther,
           sent |-> {}, failing |-> {}, jsonDumps |-> 0, msgPackDumps |-> 0,
           dumpSent |-> <<>>, sendErrors |-> 0]
NoInput == [hdl |-> 0, opCode |-> -1, p |-> EmptyObject, status |-> "none",
            order |-> <<>>,
            requiredIntent |-> 0, rpcVersion |-> 0]
NoBefore == [session |-> NoSession, refs |-> [b \in Bits |-> 0]]

\* the frames a client sends: opcode, payload, and what the Request Executor
\* answers when the frame makes ProcessMessage call it
Frames(payloads) ==
    UNION {{[NoInput EXCEPT !.opCode = opCode, !.p = p] : p \in payloads[opCode]} :
              opCode \in OpCodes \ {OpRequest, OpRequestBatch}}
    \cup
    UNION {{[NoInput EXCEPT !.opCode = OpRequestBatch, !.p = p, !.order = q] :
               q \in IF IsArray(p.requests) THEN CompletionOrders(p.requests.v)
                     ELSE {<<>>}} :
              p \in payloads[OpRequestBatch]}
    \cup
    {[NoInput EXCEPT !.opCode = OpRequest, !.p = p, !.status = status] :
        p \in payloads[OpRequest], status \in RequestStatuses}

\* the live sessions a server holds: rpcVersion is written by Identify alone,
\* and the session parameters are written after it
SessionShapes ==
    {[NewSession(enc, auth) EXCEPT !.identified = i, !.rpcVersion = v,
                                   !.ignoreInvalidMessages = g,
                                   !.eventSubscriptions = m] :
        enc \in Encodings, auth \in BOOLEAN, i \in BOOLEAN,
        v \in {0, SupportedRpcVersion}, g \in BOOLEAN, m \in Masks}
    \ {s \in
        {[NewSession(enc, auth) EXCEPT !.identified = i, !.rpcVersion = 0,
                                       !.ignoreInvalidMessages = g,
                                       !.eventSubscriptions = m] :
            enc \in Encodings, auth \in BOOLEAN, i \in BOOLEAN,
            g \in BOOLEAN, m \in Masks} :
        s.identified \/ s.ignoreInvalidMessages
           \/ s.eventSubscriptions # DefaultSubscriptions}

\* the ref-counts that hold one reference per identified session and bit
RefsOf(ss) ==
    [b \in Bits |->
        Cardinality({h \in Handles : ss[h].live /\ ss[h].identified
                                      /\ HasBit(ss[h].eventSubscriptions, b)})]

\* the threads of the pool
Tids == 1..MaxThreads

\* a thread that runs nothing
NoThread == [job |-> "idle", pc |-> "done", hdl |-> 0, p |-> EmptyObject,
             ret |-> DontCloseRet, threw |-> FALSE, subscriptions |-> 0,
             executorCalls |-> 0, event |-> NoInput, cursor |-> 0,
             seenIdentified |-> FALSE, seenRpcVersion |-> 0, seenMask |-> 0,
             sends |-> {}]
NoThreads == [t \in Tids |-> NoThread]

\* no mutex is held
NoMutex == [op |-> [h \in Handles |-> 0], table |-> 0]

(***************************************************************************)
(* The transport layer: connections come and go.                           *)
(***************************************************************************)
\* the transport accepts a connection: a Session is created
AcceptSession(h) ==
    /\ ~sessions[h].live
    /\ \E enc \in Encodings, auth \in BOOLEAN :
          sessions' = [sessions EXCEPT ![h] = NewSession(enc, auth)]
    /\ last' = [NoLast EXCEPT !.kind = "accept"]
    /\ UNCHANGED <<refs, maxThreadCount, threads, mutex, listening, pool, inbox, before>>

\* the transport closes a connection: the refs of an identified session are
\* released and the Session is destroyed
Disconnect(h) ==
    /\ sessions[h].live
    /\ LET r1 == IF sessions[h].identified
                 THEN ProcessUnsubscription(refs, sessions[h].eventSubscriptions)
                 ELSE refs
       IN /\ \A b \in Bits : r1[b] >= -MaxUnderflow
          /\ refs' = r1
    /\ sessions' = [sessions EXCEPT ![h] = NoSession]
    /\ UNCHANGED <<maxThreadCount, threads, mutex, listening, pool, inbox, before>>

CloseSession(h) ==
    /\ Disconnect(h)
    /\ last' = [NoLast EXCEPT !.kind = "close"]

\* frame f of session h runs through ProcessMessage, which leaves outcome o
HandleFrame(h, f, o) ==
    /\ o = ProcessMessage(sessions[h], refs, f.opCode, f.p, f.status, f.order,
                        maxThreadCount)
    /\ \A b \in Bits : o.refs[b] >= -MaxUnderflow
    /\ sessions' = [sessions EXCEPT ![h] = o.session]
    /\ refs' = o.refs
    /\ UNCHANGED <<maxThreadCount, threads, mutex, listening, pool>>

(***************************************************************************)
(* Spec: connections are accepted, send frames and are closed.  The frames *)
(* are the ones that walk each path of ProcessMessage: every combination   *)
(* of the session parameters after a well-formed handshake, and every      *)
(* authentication and rpcVersion value on their own.                       *)
(***************************************************************************)
WalkPayloads(op) ==
    CASE op = OpIdentify ->
             {NullPayload, OtherPayload}
             \cup {[q EXCEPT !.authentication = JString(StrAuthExpected),
                             !.rpcVersion = JUnsigned(SupportedRpcVersion)] :
                      q \in SessionParameterPayloads}
             \cup {[EmptyObject EXCEPT !.authentication = a,
                                       !.rpcVersion = JUnsigned(SupportedRpcVersion)] :
                      a \in AuthenticationValues}
             \cup {[EmptyObject EXCEPT !.authentication = JString(StrAuthExpected),
                                       !.rpcVersion = v] : v \in RpcVersionValues}
      [] op = OpReidentify -> SessionParameterPayloads
      [] op = OpRequest -> {NullPayload, OtherPayload} \cup RequestPayloads
      [] op = OpRequestBatch ->
             {[EmptyObject EXCEPT !.requestId = JString(StrOther),
                                  !.requests = J("array", MaxBatch),
                                  !.executionType = x, !.variables = v] :
                 x \in {Absent, JString(StrParallel)}, v \in {Absent, J("object", 1)}}
      [] OTHER -> {EmptyObject}

WalkFrames == Frames([op \in OpCodes |-> WalkPayloads(op)])

OnMessage(h) ==
    /\ sessions[h].live
    /\ \E f \in WalkFrames :
       \E o \in {ProcessMessage(sessions[h], refs, f.opCode, f.p, f.status,
                                f.order, maxThreadCount)} : HandleFrame(h, f, o)
    /\ last' = [NoLast EXCEPT !.kind = "message"]
    /\ UNCHANGED <<inbox, before>>

Init ==
    /\ sessions = [h \in Handles |-> NoSession]
    /\ refs = [b \in Bits |-> 0]
    /\ maxThreadCount \in 1..MinParallelThreads
    /\ threads = NoThreads
    /\ mutex = NoMutex
    /\ listening = TRUE
    /\ pool = <<>>
    /\ inbox = NoInput
    /\ before = NoBefore
    /\ last = NoLast

Next ==
    \E h \in Handles : AcceptSession(h) \/ CloseSession(h) \/ OnMessage(h)

Spec == Init /\ [][Next]_vars

(***************************************************************************)
(* SpecMsg: one frame, of every payload, handled from every state a        *)
(* session can be in while another session holds its own subscriptions.    *)
(***************************************************************************)
\* the connection that receives the frame, and the one beside it
FrameHandle == CHOOSE h \in Handles : \A g \in Handles : h <= g
OtherHandle == MaxSessions

AllFrames == Frames([op \in OpCodes |-> Payloads(op)])

InitMsg ==
    /\ \E s \in {x \in SessionShapes : x.encoding = "Json"} :
       \E o \in {NoSession,
                 [NewSession("Json", FALSE) EXCEPT !.identified = TRUE,
                                                   !.rpcVersion = SupportedRpcVersion,
                                                   !.eventSubscriptions = 1]} :
          sessions = [h \in Handles |-> IF h = FrameHandle THEN s
                                        ELSE IF h = OtherHandle THEN o
                                        ELSE NoSession]
    /\ refs = RefsOf(sessions)
    /\ maxThreadCount \in 1..MinParallelThreads
    /\ threads = NoThreads
    /\ mutex = NoMutex
    /\ listening = TRUE
    /\ pool = <<>>
    /\ inbox \in {[f EXCEPT !.hdl = FrameHandle] : f \in AllFrames}
    /\ before = NoBefore
    /\ last = NoLast

Deliver ==
    /\ last.kind = "none"
    /\ inbox.hdl \in Handles
    /\ sessions[inbox.hdl].live
    /\ \E o \in {ProcessMessage(sessions[inbox.hdl], refs, inbox.opCode, inbox.p,
                                inbox.status, inbox.order, maxThreadCount)} :
          /\ HandleFrame(inbox.hdl, inbox, o)
          /\ last' = [NoLast EXCEPT !.kind = "message", !.hdl = inbox.hdl,
                                    !.opCode = inbox.opCode,
                                    !.ret = o.ret, !.threw = o.threw,
                                    !.executorCalls = o.executorCalls,
                                    !.batchRuns = o.batchRuns,
                                    !.policy = o.policy]
    /\ before' = [session |-> sessions[inbox.hdl], refs |-> refs]
    /\ UNCHANGED inbox

NextMsg == Deliver

SpecMsg == InitMsg /\ [][NextMsg]_vars

(***************************************************************************)
(* BroadcastEvent.                                                         *)
(***************************************************************************)
\* the send of the event to session h: the message of the session's encoding
\* is dumped if it is still empty, sent, and the session's counter incremented;
\* dumpSent[h] tells which dump of that encoding the session was sent
SendEvent(acc, h, failing) ==
    LET s == acc.sessions[h]
        jsonDumps == IF s.encoding = "Json" /\ acc.jsonDumps = 0
                     THEN 1 ELSE acc.jsonDumps
        msgPackDumps == IF s.encoding = "MsgPack" /\ acc.msgPackDumps = 0
                        THEN 1 ELSE acc.msgPackDumps
    IN [sessions |-> [acc.sessions EXCEPT
                        ![h].outgoingMessages = s.outgoingMessages + 1],
        sent |-> acc.sent \cup {h},
        jsonDumps |-> jsonDumps,
        msgPackDumps |-> msgPackDumps,
        dumpSent |-> [acc.dumpSent EXCEPT
                        ![h] = IF s.encoding = "Json" THEN jsonDumps
                               ELSE msgPackDumps],
        sendErrors |-> IF h \in failing THEN acc.sendErrors + 1
                       ELSE acc.sendErrors]

\* a loop body that does not skip the sessions that are not identified
BroadcastToSession_NoIdentifiedCheck(acc, h, requiredIntent, rpcVersion, failing) ==
    LET s == acc.sessions[h]
    IN IF ~s.live THEN acc
       ELSE IF rpcVersion # 0 /\ s.rpcVersion # rpcVersion THEN acc
       ELSE IF BitAnd(s.eventSubscriptions, requiredIntent) # 0
       THEN SendEvent(acc, h, failing)
       ELSE acc

\* a loop body that leaves the loop after a send has reported an error
BroadcastToSession_StopsAfterError(acc, h, requiredIntent, rpcVersion, failing) ==
    LET s == acc.sessions[h]
    IN IF ~s.live \/ acc.sendErrors > 0 THEN acc
       ELSE IF ~s.identified THEN acc
       ELSE IF rpcVersion # 0 /\ s.rpcVersion # rpcVersion THEN acc
       ELSE IF BitAnd(s.eventSubscriptions, requiredIntent) # 0
       THEN SendEvent(acc, h, failing)
       ELSE acc

\* a loop body that dumps the message for every session it sends to
BroadcastToSession_DumpsEachTime(acc, h, requiredIntent, rpcVersion, failing) ==
    LET s == acc.sessions[h]
    IN IF ~s.live THEN acc
       ELSE IF ~s.identified THEN acc
       ELSE IF rpcVersion # 0 /\ s.rpcVersion # rpcVersion THEN acc
       ELSE IF BitAnd(s.eventSubscriptions, requiredIntent) # 0
       THEN LET sentOnce == SendEvent(acc, h, failing)
            IN IF s.encoding = "Json"
               THEN [sentOnce EXCEPT !.jsonDumps = acc.jsonDumps + 1,
                                     !.dumpSent[h] = acc.jsonDumps + 1]
               ELSE [sentOnce EXCEPT !.msgPackDumps = acc.msgPackDumps + 1,
                                     !.dumpSent[h] = acc.msgPackDumps + 1]
       ELSE acc

\* the body of the loop `for (auto & it : _sessions)` for the session of handle
\* h; acc carries the sessions, the handles sent to, and messageJson and
\* messageMsgPack (dumped when first needed)
BroadcastToSession(acc, h, requiredIntent, rpcVersion, failing) ==
    LET s == acc.sessions[h]
    IN IF ~s.live THEN acc
       ELSE IF ~s.identified THEN acc
       ELSE IF rpcVersion # 0 /\ s.rpcVersion # rpcVersion THEN acc
       ELSE IF BitAnd(s.eventSubscriptions, requiredIntent) # 0
       THEN SendEvent(acc, h, failing)
       ELSE acc

\* the loop over _sessions, in the order of the handles
RECURSIVE BroadcastLoop(_, _, _, _, _)
BroadcastLoop(acc, h, requiredIntent, rpcVersion, failing) ==
    IF h > MaxSessions THEN acc
    ELSE BroadcastLoop(BroadcastToSession(acc, h, requiredIntent, rpcVersion, failing),
                       h + 1, requiredIntent, rpcVersion, failing)

\* WebSocketServer::BroadcastEvent(requiredIntent, eventType, eventData, rpcVersion),
\* called by the Event Source (EventHandler::HandleInputCreated and the like):
\* nothing when the server is not listening, else a runnable for the thread pool
BroadcastEvent ==
    /\ last.kind = "none"
    /\ inbox.requiredIntent # 0
    /\ pool = <<>>
    /\ IF ~listening
       THEN /\ last' = [NoLast EXCEPT !.kind = "dropped"]
            /\ pool' = pool
       ELSE /\ pool' = Append(pool, inbox)
            /\ last' = [NoLast EXCEPT !.kind = "queued"]
    /\ UNCHANGED <<sessions, refs, maxThreadCount, threads, mutex, listening, inbox, before>>

\* the thread pool runs the runnable: the sends to the eligible sessions;
\* `failing` are the handles whose _server.send reports an error
RunBroadcast ==
    /\ pool # <<>>
    /\ \E failing \in SUBSET Handles :
         LET e == Head(pool)
             done == BroadcastLoop([sessions |-> sessions, sent |-> {},
                                    jsonDumps |-> 0, msgPackDumps |-> 0,
                                    dumpSent |-> [h \in Handles |-> 0],
                                    sendErrors |-> 0],
                                   1, e.requiredIntent, e.rpcVersion, failing)
         IN /\ sessions' = done.sessions
            /\ last' = [NoLast EXCEPT !.kind = "broadcast", !.sent = done.sent,
                                      !.failing = failing,
                                      !.jsonDumps = done.jsonDumps,
                                      !.msgPackDumps = done.msgPackDumps,
                                      !.dumpSent = done.dumpSent,
                                      !.sendErrors = done.sendErrors]
    /\ pool' = Tail(pool)
    /\ UNCHANGED <<refs, maxThreadCount, threads, mutex, listening, inbox, before>>

(***************************************************************************)
(* SpecBroadcast: one event, of every intent and target version, broadcast *)
(* over every table of sessions; connections may close before the thread   *)
(* pool runs the broadcast.                                                *)
(***************************************************************************)
\* the events the Event Source emits
Events ==
    {[NoInput EXCEPT !.requiredIntent = r, !.rpcVersion = v] :
        r \in Masks \ {0}, v \in 0..(SupportedRpcVersion + 1)}

\* what BroadcastEvent reads of a session: IsIdentified() first, and of an
\* identified session RpcVersion(), EventSubscriptions() and Encoding()
BroadcastShapes ==
    {s \in SessionShapes : /\ ~s.authenticationRequired
                           /\ ~s.ignoreInvalidMessages
                           /\ ~s.identified => s.encoding = "Json"}

InitBroadcast ==
    /\ sessions \in [Handles -> {NoSession} \cup BroadcastShapes]
    /\ refs = RefsOf(sessions)
    /\ maxThreadCount = MinParallelThreads
    /\ threads = NoThreads
    /\ mutex = NoMutex
    /\ listening \in BOOLEAN
    /\ pool = <<>>
    /\ inbox \in Events
    /\ before = NoBefore
    /\ last = NoLast

CloseBeforeRun(h) ==
    /\ pool # <<>>
    /\ Disconnect(h)
    /\ last' = last

NextBroadcast ==
    \/ BroadcastEvent
    \/ RunBroadcast
    \/ \E h \in Handles : CloseBeforeRun(h)

SpecBroadcast == InitBroadcast /\ [][NextBroadcast]_vars

(***************************************************************************)
(* SpecThreads: the pool's threads run ProcessMessage and the broadcast    *)
(* runnable at the same time, one statement at a time.  A thread handles   *)
(* one frame for the session FrameHandle, or runs one broadcast.           *)
(***************************************************************************)
others == <<maxThreadCount, listening, pool, inbox, before, last>>

\* an Identify that marks the session identified before it writes the
\* negotiated version's parameters
StepAfter_MarksFirst(job, pc) ==
    CASE pc = "version" -> "mark"
      [] pc = "mark" -> "params"
      [] pc = "unsubscribe" -> "inUnsubscribe"
      [] pc = "inUnsubscribe" -> "params"
      [] pc = "params" -> "subscribe"
      [] pc = "subscribe" -> "inSubscribe"
      [] pc = "inSubscribe" -> "reply"
      [] OTHER -> "unlock"

\* the statements of Identify (from SetRpcVersion on) and of Reidentify, in
\* the order of the source
StepAfter(job, pc) ==
    CASE pc = "version" -> "params"
      [] pc = "unsubscribe" -> "inUnsubscribe"
      [] pc = "inUnsubscribe" -> "params"
      [] pc = "params" -> "subscribe"
      [] pc = "subscribe" -> "inSubscribe"
      [] pc = "inSubscribe" -> IF job = "identify" THEN "mark" ELSE "reply"
      [] pc = "mark" -> "reply"
      [] OTHER -> "unlock"

\* a lock that is granted whoever holds it
OperationMutexFree_Always(h) == TRUE

\* std::unique_lock<std::mutex> sessionLock(session->OperationMutex) can go on
OperationMutexFree(h) == mutex.op[h] = 0

\* the thread returns from a case that holds the lock
Leave(th, ret) == [th EXCEPT !.ret = ret, !.pc = "unlock"]

\* the payload is an object; only Identify passes when not identified
ThreadGate(t) ==
    /\ threads[t].pc = "gate"
    /\ LET th == threads[t]
           s == sessions[th.hdl]
       IN threads' = [threads EXCEPT ![t] =
             IF ~s.identified /\ th.job # "identify"
             THEN [th EXCEPT !.ret = CloseRet("NotIdentified"), !.pc = "done"]
             ELSE [th EXCEPT !.pc = IF th.job = "request" THEN "request"
                                    ELSE "lock"]]
    /\ UNCHANGED <<sessions, refs, mutex, others>>

ThreadLock(t) ==
    /\ threads[t].pc = "lock"
    /\ OperationMutexFree(threads[t].hdl)
    /\ mutex' = [mutex EXCEPT !.op[threads[t].hdl] = t]
    /\ threads' = [threads EXCEPT ![t].pc = IF threads[t].job = "identify"
                                            THEN "check" ELSE "unsubscribe"]
    /\ UNCHANGED <<sessions, refs, others>>

\* if (session->IsIdentified())
ThreadCheck(t) ==
    /\ threads[t].pc = "check"
    /\ LET th == threads[t]
           s == sessions[th.hdl]
       IN threads' = [threads EXCEPT ![t] =
             IF s.identified
             THEN Leave(th, CloseUnlessIgnored(s, "AlreadyIdentified"))
             ELSE [th EXCEPT !.pc = "auth"]]
    /\ UNCHANGED <<sessions, refs, mutex, others>>

\* if (session->AuthenticationRequired())
ThreadAuth(t) ==
    /\ threads[t].pc = "auth"
    /\ LET th == threads[t]
           s == sessions[th.hdl]
       IN threads' = [threads EXCEPT ![t] =
             IF s.authenticationRequired
                /\ (~Contains(th.p.authentication)
                    \/ ~CheckAuthenticationString(th.p.authentication))
             THEN Leave(th, CloseRet("AuthenticationFailed"))
             ELSE [th EXCEPT !.pc = "version"]]
    /\ UNCHANGED <<sessions, refs, mutex, others>>

\* the rpcVersion checks and session->SetRpcVersion(requestedRpcVersion)
ThreadVersion(t) ==
    /\ threads[t].pc = "version"
    /\ LET th == threads[t]
           ret1 == RpcVersionTypeCheck(th.p)
       IN IF ~Contains(th.p.rpcVersion)
          THEN /\ threads' = [threads EXCEPT ![t] = Leave(th, CloseRet("MissingDataKey"))]
               /\ sessions' = sessions
          ELSE IF ~ConvertsToNumber(th.p.rpcVersion)
          THEN /\ threads' = [threads EXCEPT ![t] = [Leave(th, ret1) EXCEPT !.threw = TRUE]]
               /\ sessions' = sessions
          ELSE IF ~IsSupportedRpcVersion(ToUint8(th.p.rpcVersion))
          THEN /\ threads' = [threads EXCEPT ![t] =
                                 Leave(th, CloseRet("UnsupportedRpcVersion"))]
               /\ sessions' = sessions
          ELSE /\ threads' = [threads EXCEPT ![t] =
                                 [th EXCEPT !.ret = ret1,
                                            !.pc = StepAfter(th.job, "version")]]
               /\ sessions' = [sessions EXCEPT ![th.hdl].rpcVersion =
                                                  ToUint8(th.p.rpcVersion)]
    /\ UNCHANGED <<refs, mutex, others>>

\* SetSessionParameters(session, ret, payloadData) and the test of ret.closeCode
ThreadParams(t) ==
    /\ threads[t].pc = "params"
    /\ LET th == threads[t]
           sp == SetSessionParameters(sessions[th.hdl], th.ret, th.p)
       IN /\ sessions' = [sessions EXCEPT ![th.hdl] = sp.session]
          /\ threads' = [threads EXCEPT ![t] =
                IF sp.ret.closeCode # "DontClose" THEN Leave(th, sp.ret)
                ELSE [th EXCEPT !.ret = sp.ret, !.pc = StepAfter(th.job, "params")]]
    /\ UNCHANGED <<refs, mutex, others>>

\* the thread calls eventHandler->ProcessSubscription(...)
ThreadSubscribe(t) ==
    /\ threads[t].pc = "subscribe"
    /\ threads' = [threads EXCEPT ![t].pc = StepAfter(threads[t].job, "subscribe")]
    /\ UNCHANGED <<sessions, refs, mutex, others>>

\* inside the Event Source: the refs of the mask are added; the call returns
ThreadInSubscribe(t) ==
    /\ threads[t].pc = "inSubscribe"
    /\ LET th == threads[t]
       IN /\ refs' = ProcessSubscription(refs, sessions[th.hdl].eventSubscriptions)
          /\ threads' = [threads EXCEPT ![t] =
                [th EXCEPT !.subscriptions = th.subscriptions + 1,
                           !.pc = StepAfter(th.job, "inSubscribe")]]
    /\ UNCHANGED <<sessions, mutex, others>>

\* session->SetIsIdentified(true)
ThreadMark(t) ==
    /\ threads[t].pc = "mark"
    /\ sessions' = [sessions EXCEPT ![threads[t].hdl].identified = TRUE]
    /\ threads' = [threads EXCEPT ![t].pc = StepAfter(threads[t].job, "mark")]
    /\ UNCHANGED <<refs, mutex, others>>

\* ret.result["op"] = Identified; negotiatedRpcVersion = session->RpcVersion()
ThreadReply(t) ==
    /\ threads[t].pc = "reply"
    /\ LET th == threads[t]
       IN threads' = [threads EXCEPT ![t] =
             [th EXCEPT !.ret = ReidentifyReply(sessions[th.hdl]),
                        !.pc = StepAfter(th.job, "reply")]]
    /\ UNCHANGED <<sessions, refs, mutex, others>>

\* sessionLock leaves its scope
ThreadUnlock(t) ==
    /\ threads[t].pc = "unlock"
    /\ mutex' = [mutex EXCEPT !.op[threads[t].hdl] =
                                 IF mutex.op[threads[t].hdl] = t THEN 0
                                 ELSE mutex.op[threads[t].hdl]]
    /\ threads' = [threads EXCEPT ![t].pc = "done"]
    /\ UNCHANGED <<sessions, refs, others>>

\* Reidentify calls eventHandler->ProcessUnsubscription(...)
ThreadUnsubscribe(t) ==
    /\ threads[t].pc = "unsubscribe"
    /\ threads' = [threads EXCEPT ![t].pc = StepAfter(threads[t].job, "unsubscribe")]
    /\ UNCHANGED <<sessions, refs, mutex, others>>

\* inside the Event Source: the refs of the mask are removed; the call returns
ThreadInUnsubscribe(t) ==
    /\ threads[t].pc = "inUnsubscribe"
    /\ LET th == threads[t]
       IN /\ refs' = ProcessUnsubscription(refs, sessions[th.hdl].eventSubscriptions)
          /\ threads' = [threads EXCEPT ![t].pc = StepAfter(th.job, "inUnsubscribe")]
    /\ UNCHANGED <<sessions, mutex, others>>

\* case Request up to the call of requestHandler.ProcessRequest(request)
ThreadRequest(t) ==
    /\ threads[t].pc = "request"
    /\ LET th == threads[t]
           s == sessions[th.hdl]
       IN threads' = [threads EXCEPT ![t] =
             IF ~Contains(th.p.requestId)
             THEN [th EXCEPT !.ret = CloseUnlessIgnored(s, "MissingDataKey"),
                             !.pc = "done"]
             ELSE IF ~ConvertsToString(th.p.requestType)
             THEN [th EXCEPT !.threw = TRUE, !.pc = "done"]
             ELSE [th EXCEPT !.pc = "inExecutor"]]
    /\ UNCHANGED <<sessions, refs, mutex, others>>

\* inside the Request Executor; it answers and the reply is built
ThreadInExecutor(t) ==
    /\ threads[t].pc = "inExecutor"
    /\ \E status \in RequestStatuses :
          threads' = [threads EXCEPT ![t] =
             [threads[t] EXCEPT
                !.ret = RequestReply(sessions[threads[t].hdl], refs, threads[t].p,
                                     status).ret,
                !.executorCalls = threads[t].executorCalls + 1,
                !.pc = "done"]]
    /\ UNCHANGED <<sessions, refs, mutex, others>>

\* the broadcast goes on to the next entry of _sessions
Advance(th) ==
    [th EXCEPT !.cursor = th.cursor + 1, !.seenIdentified = FALSE,
               !.seenRpcVersion = 0, !.seenMask = 0,
               !.pc = IF th.cursor + 1 > MaxSessions THEN "unlockTable"
                      ELSE "readIdentified"]

\* std::unique_lock<std::mutex> lock(_sessionMutex)
ThreadLockTable(t) ==
    /\ threads[t].pc = "lockTable"
    /\ mutex.table = 0
    /\ mutex' = [mutex EXCEPT !.table = t]
    /\ threads' = [threads EXCEPT ![t].cursor = FrameHandle,
                                  ![t].pc = "readIdentified"]
    /\ UNCHANGED <<sessions, refs, others>>

\* if (!it.second->IsIdentified()) continue
ThreadReadIdentified(t) ==
    /\ threads[t].pc = "readIdentified"
    /\ LET th == threads[t]
           s == sessions[th.cursor]
       IN threads' = [threads EXCEPT ![t] =
             IF ~s.live \/ ~s.identified THEN Advance(th)
             ELSE [th EXCEPT !.seenIdentified = TRUE, !.pc = "readVersion"]]
    /\ UNCHANGED <<sessions, refs, mutex, others>>

\* if (rpcVersion && it.second->RpcVersion() != rpcVersion) continue
ThreadReadVersion(t) ==
    /\ threads[t].pc = "readVersion"
    /\ LET th == threads[t]
           s == sessions[th.cursor]
       IN threads' = [threads EXCEPT ![t] =
             IF th.event.rpcVersion # 0 /\ s.rpcVersion # th.event.rpcVersion
             THEN Advance(th)
             ELSE [th EXCEPT !.seenRpcVersion = s.rpcVersion, !.pc = "readMask"]]
    /\ UNCHANGED <<sessions, refs, mutex, others>>

\* if ((it.second->EventSubscriptions() & requiredIntent) != 0)
ThreadReadMask(t) ==
    /\ threads[t].pc = "readMask"
    /\ LET th == threads[t]
           s == sessions[th.cursor]
       IN threads' = [threads EXCEPT ![t] =
             IF BitAnd(s.eventSubscriptions, th.event.requiredIntent) = 0
             THEN Advance(th)
             ELSE [th EXCEPT !.seenMask = s.eventSubscriptions, !.pc = "send"]]
    /\ UNCHANGED <<sessions, refs, mutex, others>>

\* _server.send(...) and IncrementOutgoingMessages()
ThreadSend(t) ==
    /\ threads[t].pc = "send"
    /\ LET th == threads[t]
       IN /\ sessions' = [sessions EXCEPT ![th.cursor].outgoingMessages =
                             sessions[th.cursor].outgoingMessages + 1]
          /\ threads' = [threads EXCEPT ![t] =
                [Advance(th) EXCEPT !.sends = th.sends \cup
                    {[hdl |-> th.cursor, rpcVersion |-> th.seenRpcVersion,
                      eventSubscriptions |-> th.seenMask]}]]
    /\ UNCHANGED <<refs, mutex, others>>

\* lock.unlock()
ThreadUnlockTable(t) ==
    /\ threads[t].pc = "unlockTable"
    /\ mutex' = [mutex EXCEPT !.table = 0]
    /\ threads' = [threads EXCEPT ![t].pc = "done"]
    /\ UNCHANGED <<sessions, refs, others>>

\* the frames and the event the threads handle
ThreadIdentifyPayloads ==
    {[EmptyObject EXCEPT !.rpcVersion = JUnsigned(SupportedRpcVersion),
                         !.eventSubscriptions = e, !.ignoreInvalidMessages = i] :
        e \in {JUnsigned(1), JUnsigned(2), JString(StrOther)}, i \in {Absent, JTrue}}
ThreadReidentifyPayloads ==
    {[EmptyObject EXCEPT !.eventSubscriptions = e] :
        e \in {JUnsigned(2), JString(StrOther)}}
ThreadRequestPayloads ==
    {[EmptyObject EXCEPT !.requestId = JString(StrOther),
                         !.requestType = JString(StrOther)]}
ThreadEvents ==
    {[NoInput EXCEPT !.requiredIntent = DefaultSubscriptions, !.rpcVersion = v] :
        v \in {0, SupportedRpcVersion}}

ThreadJobs ==
    {[NoThread EXCEPT !.job = "identify", !.pc = "gate", !.hdl = FrameHandle, !.p = p] :
        p \in ThreadIdentifyPayloads}
    \cup
    {[NoThread EXCEPT !.job = "reidentify", !.pc = "gate", !.hdl = FrameHandle,
                      !.p = p] : p \in ThreadReidentifyPayloads}
    \cup
    {[NoThread EXCEPT !.job = "request", !.pc = "gate", !.hdl = FrameHandle, !.p = p] :
        p \in ThreadRequestPayloads}
    \cup
    {[NoThread EXCEPT !.job = "broadcast", !.pc = "lockTable", !.event = e] :
        e \in ThreadEvents}

InitThreads ==
    /\ sessions = [h \in Handles |-> IF h = FrameHandle
                                     THEN NewSession("Json", FALSE) ELSE NoSession]
    /\ refs = RefsOf(sessions)
    /\ maxThreadCount = MinParallelThreads
    /\ threads \in [Tids -> ThreadJobs]
    /\ mutex = NoMutex
    /\ listening = TRUE
    /\ pool = <<>>
    /\ inbox = NoInput
    /\ before = NoBefore
    /\ last = NoLast

NextThreads ==
    \E t \in Tids :
        \/ ThreadGate(t)
        \/ ThreadLock(t)
        \/ ThreadCheck(t)
        \/ ThreadAuth(t)
        \/ ThreadVersion(t)
        \/ ThreadParams(t)
        \/ ThreadSubscribe(t)
        \/ ThreadInSubscribe(t)
        \/ ThreadMark(t)
        \/ ThreadReply(t)
        \/ ThreadUnlock(t)
        \/ ThreadUnsubscribe(t)
        \/ ThreadInUnsubscribe(t)
        \/ ThreadRequest(t)
        \/ ThreadInExecutor(t)
        \/ ThreadLockTable(t)
        \/ ThreadReadIdentified(t)
        \/ ThreadReadVersion(t)
        \/ ThreadReadMask(t)
        \/ ThreadSend(t)
        \/ ThreadUnlockTable(t)

SpecThreads == InitThreads /\ [][NextThreads]_vars

(***************************************************************************)
(* What the properties below speak of.                                     *)
(***************************************************************************)
\* a frame has run through ProcessMessage (SpecMsg)
Handled == last.kind = "message"
\* the frame's payload `d` is an object
ObjectPayload == inbox.p.shape = "object"
\* the session the frame belongs to, before and after
Pre == before.session
Post == sessions[inbox.hdl]
\* nothing the frame could have touched has changed
NothingChanged == Post = Pre /\ refs = before.refs
\* the number of references a mask holds on bit b
RefOn(mask, b) == IF HasBit(mask, b) THEN 1 ELSE 0
\* every live session of the lifecycle is one of SessionShapes
SessionsAreShapes ==
    \A h \in Handles : sessions[h].live => sessions[h] \in SessionShapes

(***************************************************************************)
(* C1 as stated: on a session that is not identified, every message whose  *)
(* opcode is not Identify produces a NotIdentified close, whatever the     *)
(* payload and whatever ignoreInvalidMessages is.                          *)
(***************************************************************************)
C1_NotIdentifiedWhateverPayload ==
    (Handled /\ ~Pre.identified /\ inbox.opCode # OpIdentify)
        => last.ret.closeCode = "NotIdentified"

(***************************************************************************)
(* C1 amended: on a session that is not identified, every message whose    *)
(* opcode is not Identify and whose payload is an object produces a        *)
(* NotIdentified close and no reply, whatever the object holds and         *)
(* whatever ignoreInvalidMessages is; a payload that is not an object is   *)
(* closed with MissingDataKey (no `d`) or InvalidDataKeyType instead.      *)
(***************************************************************************)
C1_NotIdentifiedClose ==
    (Handled /\ ~Pre.identified /\ inbox.opCode # OpIdentify)
        => /\ last.ret.result = NoResult
           /\ NothingChanged
           /\ last.ret.closeCode =
                 (CASE inbox.p.shape = "object" -> "NotIdentified"
                    [] inbox.p.shape = "null" -> "MissingDataKey"
                    [] OTHER -> "InvalidDataKeyType")

C1_Witness ==
    /\ Handled /\ ~Pre.identified /\ Pre.ignoreInvalidMessages
    /\ inbox.opCode = OpRequestBatch /\ ObjectPayload
    /\ Contains(inbox.p.requestId)
    /\ last.ret.closeCode = "NotIdentified"

(***************************************************************************)
(* C2: an Identify on a session that is already identified yields an       *)
(* AlreadyIdentified close when ignoreInvalidMessages is false; when it is *)
(* true it yields no close and no reply, and leaves the session's fields   *)
(* and the aggregate ref-counts as they were.  (The payload is an object:  *)
(* the check of `d` comes before every opcode.)                            *)
(***************************************************************************)
C2_DoubleIdentify ==
    (Handled /\ inbox.opCode = OpIdentify /\ ObjectPayload /\ Pre.identified)
        => /\ ~Pre.ignoreInvalidMessages => last.ret = CloseRet("AlreadyIdentified")
           /\ Pre.ignoreInvalidMessages => (last.ret = DontCloseRet /\ NothingChanged)

C2_Witness ==
    /\ Handled /\ inbox.opCode = OpIdentify /\ Pre.identified
    /\ Pre.ignoreInvalidMessages
    /\ inbox.p.rpcVersion = JUnsigned(SupportedRpcVersion)
    /\ inbox.p.ignoreInvalidMessages = JFalse
    /\ IsNumberUnsigned(inbox.p.eventSubscriptions)
    /\ inbox.p.eventSubscriptions.v # Pre.eventSubscriptions
    /\ last.ret = DontCloseRet

(***************************************************************************)
(* C3: an Identify that succeeds with subscription mask M raises the       *)
(* aggregate ref-count of each bit of M by exactly 1 and changes no other  *)
(* count; a Reidentify that moves an identified session from mask M to     *)
(* mask M' leaves the counts as they were with M removed once and M' added *)
(* once.                                                                   *)
(***************************************************************************)
C3_RefCountsFollowMask ==
    /\ (Handled /\ inbox.opCode = OpIdentify /\ last.ret.result.op = OpIdentified)
          => \A b \in Bits :
                refs[b] = before.refs[b] + RefOn(Post.eventSubscriptions, b)
    /\ (Handled /\ inbox.opCode = OpReidentify /\ last.ret.result.op = OpIdentified)
          => \A b \in Bits :
                refs[b] = before.refs[b] - RefOn(Pre.eventSubscriptions, b)
                                         + RefOn(Post.eventSubscriptions, b)

C3_Witness ==
    /\ Handled /\ inbox.opCode = OpReidentify /\ last.ret.result.op = OpIdentified
    /\ Pre.eventSubscriptions = 1 /\ Post.eventSubscriptions = 2
    /\ sessions[OtherHandle].live
    /\ refs[0] = 1 /\ refs[1] = 1

(***************************************************************************)
(* C4: after any sequence of Identify, Reidentify (successful or ending in *)
(* a close decision) and connection-close operations, the aggregate        *)
(* ref-count of every subscription bit equals the number of live           *)
(* identified sessions whose eventSubscriptions has that bit set; no count *)
(* is decremented twice for a session or driven below zero.                *)
(***************************************************************************)
C4_RefCountsMatchSessions ==
    \A b \in Bits :
        /\ refs[b] >= 0
        /\ refs[b] = Cardinality({h \in Handles :
                         /\ sessions[h].live /\ sessions[h].identified
                         /\ HasBit(sessions[h].eventSubscriptions, b)})

(***************************************************************************)
(* C5: a broadcast with required intent R and target version V, made while *)
(* the server is listening, sends the event to exactly the sessions that   *)
(* are identified, whose eventSubscriptions shares a bit with R, and whose *)
(* rpcVersion is V when V is not 0; no other session is sent it.           *)
(***************************************************************************)
Eligible(h) ==
    /\ sessions[h].live
    /\ sessions[h].identified
    /\ \E b \in Bits : HasBit(sessions[h].eventSubscriptions, b)
                       /\ HasBit(inbox.requiredIntent, b)
    /\ inbox.rpcVersion = 0 \/ sessions[h].rpcVersion = inbox.rpcVersion

C5_BroadcastReachesEligible ==
    last.kind = "broadcast"
        => /\ last.sent = {h \in Handles : Eligible(h)}
           /\ \A h \in Handles :
                 sessions[h].live =>
                    sessions[h].outgoingMessages = (IF h \in last.sent THEN 1 ELSE 0)

C5_Witness ==
    /\ last.kind = "broadcast"
    /\ inbox.requiredIntent = 2 /\ inbox.rpcVersion = SupportedRpcVersion
    /\ \E g, h \in Handles :
          /\ sessions[g].identified /\ sessions[g].eventSubscriptions = 1
          /\ sessions[h].identified /\ sessions[h].eventSubscriptions = 3
          /\ last.sent = {h}

(***************************************************************************)
(* C6: when authentication is required, an Identify (on a session that is  *)
(* not identified yet) whose `authentication` is missing or fails the      *)
(* challenge check yields an AuthenticationFailed close, whatever          *)
(* ignoreInvalidMessages is and whatever rpcVersion, ignoreInvalidMessages *)
(* and eventSubscriptions the payload carries; the session is not marked   *)
(* identified, its rpcVersion is not set and no ref-count is registered.   *)
(***************************************************************************)
AuthenticationFails ==
    \/ ~Contains(inbox.p.authentication)
    \/ inbox.p.authentication # JString(StrAuthExpected)

C6_AuthenticationFailureIsFatal ==
    (Handled /\ inbox.opCode = OpIdentify /\ ObjectPayload /\ ~Pre.identified
       /\ Pre.authenticationRequired /\ AuthenticationFails)
        => /\ last.ret = CloseRet("AuthenticationFailed")
           /\ ~Post.identified
           /\ Post.rpcVersion = Pre.rpcVersion
           /\ refs = before.refs

C6_Witness ==
    /\ Handled /\ inbox.opCode = OpIdentify /\ ~Pre.identified
    /\ Pre.authenticationRequired /\ Pre.ignoreInvalidMessages
    /\ inbox.p.authentication = JString(StrOther)
    /\ inbox.p.rpcVersion = JUnsigned(SupportedRpcVersion)
    /\ inbox.p.eventSubscriptions = JUnsigned(1)
    /\ last.ret.closeCode = "AuthenticationFailed"

(***************************************************************************)
(* C7: a Request without a `requestId` on an identified session closes the *)
(* connection with MissingDataKey when ignoreInvalidMessages is false;     *)
(* when it is true the connection stays open and no reply is produced; in  *)
(* both cases the Request Executor is not invoked.  (The payload is an     *)
(* object: the check of `d` comes before every opcode.)                    *)
(***************************************************************************)
C7_RequestWithoutId ==
    (Handled /\ inbox.opCode = OpRequest /\ ObjectPayload /\ Pre.identified
       /\ ~Contains(inbox.p.requestId))
        => /\ ~Pre.ignoreInvalidMessages => last.ret = CloseRet("MissingDataKey")
           /\ Pre.ignoreInvalidMessages => last.ret = DontCloseRet
           /\ last.executorCalls = 0

C7_Witness ==
    /\ Handled /\ inbox.opCode = OpRequest /\ Pre.identified
    /\ Pre.ignoreInvalidMessages
    /\ ~Contains(inbox.p.requestId) /\ Contains(inbox.p.requestType)
    /\ last.ret = DontCloseRet

(***************************************************************************)
(* C8 as stated: a RequestBatch (with a requestId and a `requests` array,  *)
(* on an identified session) with executionType PARALLEL and a nonempty    *)
(* `variables` object is rejected with an UnsupportedFeature close before  *)
(* any sub-request is executed.                                            *)
(***************************************************************************)
ParallelBatchWithVariables ==
    /\ Handled /\ inbox.opCode = OpRequestBatch /\ ObjectPayload /\ Pre.identified
    /\ Contains(inbox.p.requestId) /\ IsArray(inbox.p.requests)
    /\ inbox.p.executionType = JString(StrParallel)
    /\ inbox.p.variables.t = "object" /\ inbox.p.variables.v > 0

C8_ParallelVariablesClose ==
    ParallelBatchWithVariables
        => /\ last.ret.closeCode = "UnsupportedFeature"
           /\ last.batchRuns = 0 /\ last.executorCalls = 0

(***************************************************************************)
(* C8 amended: a RequestBatch with a requestId and a `requests` array, on  *)
(* an identified session, with executionType PARALLEL and a nonempty       *)
(* `variables` object is rejected before any sub-request is executed: with *)
(* an UnsupportedFeature close when ignoreInvalidMessages is false, and    *)
(* dropped with no close and no reply when it is true.                     *)
(***************************************************************************)
C8_ParallelVariablesRejected ==
    ParallelBatchWithVariables
        => /\ ~Pre.ignoreInvalidMessages => last.ret = CloseRet("UnsupportedFeature")
           /\ Pre.ignoreInvalidMessages => last.ret = DontCloseRet
           /\ last.batchRuns = 0 /\ last.executorCalls = 0

C8_Witness ==
    /\ ParallelBatchWithVariables
    /\ maxThreadCount >= MinParallelThreads
    /\ inbox.p.requests.v > 0
    /\ ~Pre.ignoreInvalidMessages
    /\ last.ret.closeCode = "UnsupportedFeature"

(***************************************************************************)
(* C9: for every session state, opcode and payload, ProcessMessage never   *)
(* produces both a reply and a close decision: when the close code is not  *)
(* DontClose the result is empty, and when a result is set the close code  *)
(* is DontClose.                                                           *)
(***************************************************************************)
C9_ReplyOrCloseNeverBoth ==
    Handled => (last.ret.closeCode = "DontClose" \/ last.ret.result = NoResult)

\* the Identify whose rpcVersion is `true`: ret holds a close code while the
\* function goes on to the session parameters
C9_Witness ==
    /\ Handled /\ inbox.opCode = OpIdentify /\ ~Pre.identified
    /\ inbox.p.rpcVersion = JTrue
    /\ ~Contains(inbox.p.ignoreInvalidMessages)
    /\ ~Contains(inbox.p.eventSubscriptions)
    /\ last.ret.closeCode = "InvalidDataKeyType"
    /\ last.ret.result = NoResult

(***************************************************************************)
(* C10: over the lifetime of a session rpcVersion is written exactly once, *)
(* by the first Identify that succeeds (replies Identified), and never     *)
(* changes afterwards: an Identify that ends in a close decision leaves    *)
(* rpcVersion at 0, later Identify and Reidentify messages leave it as it  *)
(* is, and Reidentify replies with the same negotiated version.  (Stated   *)
(* of the frames whose rpcVersion, when present, is an unsigned number.)   *)
(***************************************************************************)
C10_RpcVersionWrittenOnce ==
    (Handled /\ (Contains(inbox.p.rpcVersion) => IsNumberUnsigned(inbox.p.rpcVersion)))
        => /\ Post.rpcVersion # Pre.rpcVersion
                => /\ inbox.opCode = OpIdentify /\ ~Pre.identified
                   /\ last.ret.result.op = OpIdentified
           /\ (inbox.opCode = OpIdentify /\ ~Pre.identified
                 /\ last.ret.closeCode # "DontClose")
                => Post.rpcVersion = 0
           /\ (inbox.opCode = OpReidentify /\ last.ret.result.op = OpIdentified)
                => last.ret.result.negotiatedRpcVersion = Pre.rpcVersion

(***************************************************************************)
(* C12: a Request that carries a `requestId`, on an identified session,    *)
(* makes exactly one call of the Request Executor and is answered with a   *)
(* RequestResponse and no close, whatever status the executor returns; the *)
(* reply's status `result` is true exactly when the status is Success.     *)
(***************************************************************************)
RequestWithId ==
    /\ Handled /\ inbox.opCode = OpRequest /\ ObjectPayload /\ Pre.identified
    /\ Contains(inbox.p.requestId)

C12_RequestAlwaysAnswered ==
    RequestWithId
        => /\ ~last.threw
           /\ last.executorCalls = 1
           /\ last.ret.closeCode = "DontClose"
           /\ last.ret.result.op = OpRequestResponse
           /\ last.ret.result.requestStatus.code = inbox.status
           /\ last.ret.result.requestStatus.result = (inbox.status = "Success")

(***************************************************************************)
(* C15: on an identified session, a message (with an object payload) whose *)
(* opcode is none of Identify, Reidentify, Request, RequestBatch yields an *)
(* UnknownOpCode close when ignoreInvalidMessages is false; when it is     *)
(* true it yields no close and no reply and changes neither the session    *)
(* nor the ref-counts.  Nothing is executed in either case.                *)
(***************************************************************************)
C15_UnknownOpCode ==
    (Handled /\ ObjectPayload /\ Pre.identified
       /\ inbox.opCode \notin {OpIdentify, OpReidentify, OpRequest, OpRequestBatch})
        => /\ ~Pre.ignoreInvalidMessages => last.ret = CloseRet("UnknownOpCode")
           /\ Pre.ignoreInvalidMessages => (last.ret = DontCloseRet /\ NothingChanged)
           /\ last.executorCalls = 0 /\ last.batchRuns = 0

C15_Witness ==
    /\ Handled /\ ObjectPayload /\ Pre.identified /\ Pre.ignoreInvalidMessages
    /\ inbox.opCode = OpEvent
    /\ sessions[OtherHandle].live
    /\ last.ret = DontCloseRet

(***************************************************************************)
(* C16 as stated: a RequestBatch (with a requestId and a `requests` array, *)
(* on an identified session) with executionType PARALLEL is rejected with  *)
(* an UnsupportedFeature close, before any sub-request executes, whenever  *)
(* the pool has fewer than 2 threads; with 2 or more threads and no        *)
(* `variables` it is handed to the engine with the PARALLEL policy.        *)
(***************************************************************************)
ParallelBatch ==
    /\ Handled /\ inbox.opCode = OpRequestBatch /\ ObjectPayload /\ Pre.identified
    /\ Contains(inbox.p.requestId) /\ IsArray(inbox.p.requests)
    /\ inbox.p.executionType = JString(StrParallel)

ParallelBatchAccepted ==
    /\ last.ret.closeCode = "DontClose"
    /\ last.ret.result.op = OpRequestBatchResponse
    /\ last.batchRuns = 1 /\ last.policy = StrParallel

C16_ParallelNeedsTwoThreadsClose ==
    ParallelBatch
        => /\ maxThreadCount < MinParallelThreads
                => /\ last.ret.closeCode = "UnsupportedFeature"
                   /\ last.batchRuns = 0 /\ last.executorCalls = 0
           /\ (maxThreadCount >= MinParallelThreads /\ ~Contains(inbox.p.variables))
                => ParallelBatchAccepted

(***************************************************************************)
(* C16 amended: a RequestBatch with a requestId and a `requests` array, on *)
(* an identified session, with executionType PARALLEL is rejected before   *)
(* any sub-request executes whenever the pool has fewer than 2 threads:    *)
(* with an UnsupportedFeature close when ignoreInvalidMessages is false,   *)
(* dropped with no close and no reply when it is true; with 2 or more      *)
(* threads and no `variables` key it is handed to the engine with the      *)
(* PARALLEL policy.                                                        *)
(***************************************************************************)
C16_ParallelNeedsTwoThreads ==
    ParallelBatch
        => /\ maxThreadCount < MinParallelThreads
                => /\ ~Pre.ignoreInvalidMessages
                        => last.ret = CloseRet("UnsupportedFeature")
                   /\ Pre.ignoreInvalidMessages => last.ret = DontCloseRet
                   /\ last.batchRuns = 0 /\ last.executorCalls = 0
           /\ (maxThreadCount >= MinParallelThreads /\ ~Contains(inbox.p.variables))
                => ParallelBatchAccepted

C16_Witness ==
    /\ ParallelBatch
    /\ maxThreadCount = MinParallelThreads - 1
    /\ ~Pre.ignoreInvalidMessages
    /\ ~Contains(inbox.p.variables)
    /\ inbox.p.requests.v = MaxBatch
    /\ last.ret.closeCode = "UnsupportedFeature"

C19_WrongTypedRpcVersionRejected ==
    (Handled /\ inbox.opCode = OpIdentify /\ ObjectPayload /\ ~Pre.identified
       /\ (Pre.authenticationRequired => ~AuthenticationFails)
       /\ Contains(inbox.p.rpcVersion) /\ ~IsNumberUnsigned(inbox.p.rpcVersion))
        => /\ ~last.threw
           /\ last.ret = CloseRet("InvalidDataKeyType")
           /\ Post.rpcVersion = Pre.rpcVersion
           /\ Post.ignoreInvalidMessages = Pre.ignoreInvalidMessages
           /\ Post.eventSubscriptions = Pre.eventSubscriptions

(***************************************************************************)
(* C13: within one broadcast, whichever sends report an error, every       *)
(* eligible session is still sent the event (and its outgoing-message      *)
(* counter incremented); each failing send is counted once.                *)
(***************************************************************************)
C13_SendErrorsAreIsolated ==
    last.kind = "broadcast"
        => /\ \A h \in Handles :
                 Eligible(h) => (h \in last.sent /\ sessions[h].outgoingMessages = 1)
           /\ last.sendErrors = Cardinality({h \in last.failing : Eligible(h)})

C13_Witness ==
    /\ last.kind = "broadcast"
    /\ last.failing = {FrameHandle}
    /\ Eligible(FrameHandle) /\ Eligible(OtherHandle)
    /\ last.sent = {FrameHandle, OtherHandle}
    /\ last.sendErrors = 1

(***************************************************************************)
(* C14: within one broadcast the event is serialized at most once per      *)
(* encoding, and an encoding is serialized only if a session that is sent  *)
(* the event uses it; the sessions of one encoding are all sent the same   *)
(* serialization.                                                          *)
(***************************************************************************)
SentWith(enc) == {h \in last.sent : sessions[h].encoding = enc}

C14_OneDumpPerEncoding ==
    last.kind = "broadcast"
        => /\ last.jsonDumps = (IF SentWith("Json") # {} THEN 1 ELSE 0)
           /\ last.msgPackDumps = (IF SentWith("MsgPack") # {} THEN 1 ELSE 0)
           /\ \A h \in last.sent : last.dumpSent[h] = 1
           /\ \A h \in Handles \ last.sent : last.dumpSent[h] = 0

C14_Witness ==
    /\ last.kind = "broadcast"
    /\ SentWith("Json") = {FrameHandle, OtherHandle}
    /\ FrameHandle # OtherHandle
    /\ last.jsonDumps = 1 /\ last.msgPackDumps = 0

(***************************************************************************)
(* C11: in every reachable state, a thread that holds a session's          *)
(* operation lock is not inside a call into the Request Executor or into   *)
(* the Event Source (its subscription accounting included), and is not     *)
(* iterating the session table.                                            *)
(***************************************************************************)
HoldsOperationMutex(t) == \E h \in Handles : mutex.op[h] = t
InCollaborator(t) == threads[t].pc \in {"inSubscribe", "inUnsubscribe", "inExecutor"}
IteratingSessions(t) == mutex.table = t

C11_NoCallUnderOperationMutex ==
    \A t \in Tids :
        HoldsOperationMutex(t) => (~InCollaborator(t) /\ ~IteratingSessions(t))

(***************************************************************************)
(* C18: when Identify messages for the same session, not identified yet,   *)
(* are processed at the same time, at most one of them registers the       *)
(* session's mask and replies Identified, under every interleaving; once   *)
(* all have returned, exactly one has completed the handshake when at      *)
(* least one of them is valid, and every other valid one has found the     *)
(* session identified already (AlreadyIdentified close, or silently        *)
(* dropped when the session ignores invalid messages).                     *)
(***************************************************************************)
IdentifyThreads == {t \in Tids : threads[t].job = "identify"}
ValidIdentify(t) == IsNumberUnsigned(threads[t].p.eventSubscriptions)
Handshakes == {t \in IdentifyThreads : threads[t].ret.result.op = OpIdentified}
Registrations == {t \in IdentifyThreads : threads[t].subscriptions > 0}

C18_OneHandshake ==
    /\ Cardinality(Registrations) <= 1
    /\ \A t \in IdentifyThreads : threads[t].subscriptions <= 1
    /\ Cardinality(Handshakes) <= 1
    /\ (\A t \in IdentifyThreads : threads[t].pc = "done")
          => /\ (\E t \in IdentifyThreads : ValidIdentify(t))
                    => (Cardinality(Handshakes) = 1 /\ Handshakes = Registrations)
             /\ \A t \in IdentifyThreads \ Handshakes :
                   ValidIdentify(t)
                      => /\ threads[t].ret.result = NoResult
                         /\ threads[t].ret.closeCode
                               \in {"AlreadyIdentified", "DontClose"}

C18_Witness ==
    /\ \A t \in Tids : threads[t].job = "identify" /\ threads[t].pc = "done"
                       /\ ValidIdentify(t)
    /\ \E t, u \in Tids :
          /\ threads[t].p.eventSubscriptions # threads[u].p.eventSubscriptions
          /\ threads[t].ret.result.op = OpIdentified
          /\ threads[u].ret.closeCode = "AlreadyIdentified"
          /\ sessions[FrameHandle].eventSubscriptions = threads[t].p.eventSubscriptions.v
          /\ refs = RefsOf(sessions)

(***************************************************************************)
(* C20: under every interleaving of a broadcast with the Identify and      *)
(* Reidentify messages of a session, the broadcast sends the event to the  *)
(* session only if the session is identified, and what it then reads is    *)
(* the negotiated rpcVersion and a negotiated eventSubscriptions mask,     *)
(* never the rpcVersion 0 or the default mask from before the handshake.   *)
(***************************************************************************)
NegotiatedMasks ==
    {threads[u].p.eventSubscriptions.v :
        u \in {v \in Tids : /\ threads[v].job \in {"identify", "reidentify"}
                            /\ IsNumberUnsigned(threads[v].p.eventSubscriptions)}}

C20_BroadcastSeesNegotiated ==
    \A t \in Tids :
        /\ (threads[t].job = "broadcast" /\ threads[t].pc \in {"readMask", "send"})
              => (threads[t].seenIdentified
                    /\ threads[t].seenRpcVersion = SupportedRpcVersion)
        /\ (threads[t].job = "broadcast" /\ threads[t].pc = "send")
              => threads[t].seenMask \in NegotiatedMasks
        /\ \A snd \in threads[t].sends :
              /\ sessions[snd.hdl].identified
              /\ snd.rpcVersion = SupportedRpcVersion
              /\ snd.eventSubscriptions \in NegotiatedMasks

C20_Witness ==
    \E t, u \in Tids :
        /\ threads[u].job = "identify" /\ threads[u].pc = "reply"
        /\ threads[t].job = "broadcast"
        /\ \E snd \in threads[t].sends :
              /\ snd.hdl = FrameHandle
              /\ snd.eventSubscriptions = threads[u].p.eventSubscriptions.v

=============================================================================
